---- MODULE Spec2Model ----
(***************************************************************************)
(* A model of the autonomous code review agent: the job lifecycle kept in  *)
(* the analysis_tasks table (app/main.py, app/tasks.py), the review        *)
(* pipeline (app/agents/code_review_agent.py, app/agents/tools.py) and the *)
(* diff parser (app/services/github_service.py).                           *)
(*                                                                         *)
(* A Python str is modelled as a sequence of one-character strings, a      *)
(* list as a sequence, a dict as a function, and an Optional value as the  *)
(* empty sequence (None) or a one-element sequence.                        *)
(***************************************************************************)
EXTENDS Integers, Sequences, FiniteSets, TLC

(***************************************************************************)
(* Bounds of the model.                                                    *)
(***************************************************************************)
\* number of job ids that can be submitted
MaxJobs == 2
\* the clock runs from 0 to MaxNow days, in steps of TickDays days
MaxNow == 8
TickDays == 8

(***************************************************************************)
(* Python str operations, on sequences of characters.                      *)
(***************************************************************************)
NoneVal == <<>>
Some(v) == <<v>>

StartsWith(s, pre) ==
    /\ Len(pre) <= Len(s)
    /\ SubSeq(s, 1, Len(pre)) = pre

EndsWith(s, suf) ==
    /\ Len(suf) <= Len(s)
    /\ SubSeq(s, Len(s) - Len(suf) + 1, Len(s)) = suf

\* sub in s
Contains(s, sub) ==
    \E i \in 1..(Len(s) - Len(sub) + 1) : SubSeq(s, i, i + Len(sub) - 1) = sub

UpperOf ==
    [a |-> "A", b |-> "B", c |-> "C", d |-> "D", e |-> "E", f |-> "F",
     g |-> "G", h |-> "H", i |-> "I", j |-> "J", k |-> "K", l |-> "L",
     m |-> "M", n |-> "N", o |-> "O", p |-> "P", q |-> "Q", r |-> "R",
     s |-> "S", t |-> "T", u |-> "U", v |-> "V", w |-> "W", x |-> "X",
     y |-> "Y", z |-> "Z"]

LowerChar(c) ==
    IF \E k \in DOMAIN UpperOf : UpperOf[k] = c
    THEN CHOOSE k \in DOMAIN UpperOf : UpperOf[k] = c
    ELSE c

UpperChar(c) == IF c \in DOMAIN UpperOf THEN UpperOf[c] ELSE c

\* s.lower(), s.upper()
Lower(s) == [i \in 1..Len(s) |-> LowerChar(s[i])]
Upper(s) == [i \in 1..Len(s) |-> UpperChar(s[i])]

\* the index of the first occurrence of character c in s at or after from, or 0
FindChar(s, c, from) ==
    LET at == {i \in from..Len(s) : s[i] = c}
    IN  IF at = {} THEN 0
        ELSE CHOOSE i \in at : \A j \in at : i <= j

\* s.split(c) for a one-character separator: never an empty list
RECURSIVE Split(_, _)
Split(s, c) ==
    LET k == FindChar(s, c, 1) IN
    IF k = 0 THEN <<s>>
    ELSE <<SubSeq(s, 1, k - 1)>> \o Split(SubSeq(s, k + 1, Len(s)), c)

Last(q) == q[Len(q)]

\* \s and \d of the re module, on the characters the model uses
IsSpace(c) == c \in {" ", "\t", "\n", "\r", "\f"}
Digits == <<"0", "1", "2", "3", "4", "5", "6", "7", "8", "9">>
IsDigit(c) == \E d \in 1..10 : Digits[d] = c
DigitVal(c) == (CHOOSE d \in 1..10 : Digits[d] = c) - 1
\* \w of the re module
IsWord(c) ==
    \/ c \in DOMAIN UpperOf
    \/ \E k \in DOMAIN UpperOf : UpperOf[k] = c
    \/ IsDigit(c)
    \/ c = "_"

\* int(s) for a non-empty run of digits
RECURSIVE ParseInt(_)
ParseInt(s) ==
    IF Len(s) = 0 THEN 0
    ELSE 10 * ParseInt(SubSeq(s, 1, Len(s) - 1)) + DigitVal(s[Len(s)])

\* the end of the longest run of digits of s that starts at from (from - 1: none)
RECURSIVE DigitRunEnd(_, _)
DigitRunEnd(s, from) ==
    IF from <= Len(s) /\ IsDigit(s[from]) THEN DigitRunEnd(s, from + 1)
    ELSE from - 1

\* the end of the longest run of whitespace of s that starts at from
RECURSIVE SpaceRunEnd(_, _)
SpaceRunEnd(s, from) ==
    IF from <= Len(s) /\ IsSpace(s[from]) THEN SpaceRunEnd(s, from + 1)
    ELSE from - 1

Min(S) == CHOOSE x \in S : \A y \in S : x <= y

(***************************************************************************)
(* FileFilter: CodeReviewAgent._should_skip_file.                          *)
(***************************************************************************)
skip_extensions ==
    { <<".", "p", "n", "g">>, <<".", "j", "p", "g">>, <<".", "j", "p", "e", "g">>, <<".", "g", "i", "f">>, <<".", "s", "v", "g">>, <<".", "i", "c", "o">>,
      <<".", "p", "d", "f">>, <<".", "d", "o", "c">>, <<".", "d", "o", "c", "x">>, <<".", "x", "l", "s">>, <<".", "x", "l", "s", "x">>,
      <<".", "z", "i", "p">>, <<".", "t", "a", "r">>, <<".", "g", "z">>, <<".", "r", "a", "r">>,
      <<".", "m", "p", "4">>, <<".", "a", "v", "i">>, <<".", "m", "o", "v">>, <<".", "m", "p", "3">>, <<".", "w", "a", "v">>,
      <<".", "l", "o", "c", "k">>, <<".", "l", "o", "g">> }

skip_patterns ==
    { <<"n", "o", "d", "e", "_", "m", "o", "d", "u", "l", "e", "s", "/">>, <<"v", "e", "n", "v", "/">>, <<"_", "_", "p", "y", "c", "a", "c", "h", "e", "_", "_", "/">>, <<".", "g", "i", "t", "/">>,
      <<"d", "i", "s", "t", "/">>, <<"b", "u", "i", "l", "d", "/">>, <<"t", "a", "r", "g", "e", "t", "/">>, <<".", "i", "d", "e", "a", "/">>, <<".", "v", "s", "c", "o", "d", "e", "/">> }

should_skip_file(file_name) ==
    \/ \E ext \in skip_extensions : EndsWith(Lower(file_name), ext)
    \/ \E pattern \in skip_patterns : Contains(file_name, pattern)

(***************************************************************************)
(* DiffLineMapper: GitHubService.parse_diff_for_changed_lines.             *)
(***************************************************************************)
\* d[k] = v on a dict
DictSet(d, k, v) == [x \in (DOMAIN d) \cup {k} |-> IF x = k THEN v ELSE d[x]]
\* d.get(k, default)
DictGet(d, k, default) == IF k \in DOMAIN d THEN d[k] ELSE default
EmptyDict == <<>>

\* a range that takes its end in
RangeInclusive(a, n) == [i \in 1..(n + 1) |-> a + i - 1]

\* list(range(a, a + n))
Range(a, n) == [i \in 1..n |-> a + i - 1]

\* re.search(r'b/(.+)$', line): group(1) of the leftmost match, or None
HeaderFile(line) ==
    LET at == {i \in 1..(Len(line) - 2) : line[i] = "b" /\ line[i + 1] = "/"}
    IN  IF at = {} THEN NoneVal
        ELSE Some(SubSeq(line, Min(at) + 2, Len(line)))

\* re.search(r'\+(\d+),?(\d+)?', line): (start_line, line_count) of the
\* leftmost match, line_count 1 when group(2) is None; or None
HunkMatch(line) ==
    LET at == {i \in 1..(Len(line) - 1) : line[i] = "+" /\ IsDigit(line[i + 1])}
    IN  IF at = {} THEN NoneVal
        ELSE LET i  == Min(at)
                 e1 == DigitRunEnd(line, i + 1)
                 c  == IF e1 + 1 <= Len(line) /\ line[e1 + 1] = ","
                       THEN e1 + 2 ELSE e1 + 1
                 e2 == DigitRunEnd(line, c)
                 start_line == ParseInt(SubSeq(line, i + 1, e1))
                 line_count == IF e2 >= c THEN ParseInt(SubSeq(line, c, e2))
                               ELSE 1
             IN  Some([start_line |-> start_line, line_count |-> line_count])

\* the loop over diff_content.split('\n'), from line k on
RECURSIVE ParseLines(_, _, _, _)
ParseLines(lines, k, changed_lines, current_file) ==
    IF k > Len(lines) THEN changed_lines
    ELSE LET line == lines[k] IN
         IF StartsWith(line, <<"d", "i", "f", "f", " ", "-", "-", "g", "i", "t">>)
         THEN LET match == HeaderFile(line) IN
              IF match # NoneVal
              THEN ParseLines(lines, k + 1,
                              DictSet(changed_lines, match[1], <<>>), match)
              ELSE ParseLines(lines, k + 1, changed_lines, current_file)
         ELSE IF StartsWith(line, <<"@", "@">>) /\ current_file # NoneVal
         THEN LET match == HunkMatch(line) IN
              IF match # NoneVal
              THEN ParseLines(lines, k + 1,
                       DictSet(changed_lines, current_file[1],
                               changed_lines[current_file[1]]
                                  \o Range(match[1].start_line, match[1].line_count)),
                       current_file)
              ELSE ParseLines(lines, k + 1, changed_lines, current_file)
         ELSE ParseLines(lines, k + 1, changed_lines, current_file)

parse_diff_for_changed_lines(diff_content) ==
    ParseLines(Split(diff_content, "\n"), 1, EmptyDict, NoneVal)

(***************************************************************************)
(* LineRuleEngine: CodeAnalysisTool.                                       *)
(***************************************************************************)
LongLine == 120

Issue(type, line_num, description, suggestion, severity) ==
    [type |-> type, line |-> line_num, description |-> description,
     suggestion |-> suggestion, severity |-> severity]

\* re.search(r',[^\s\]]', line)
CommaNoSpace(line) ==
    \E i \in 1..(Len(line) - 1) :
        line[i] = "," /\ ~IsSpace(line[i + 1]) /\ line[i + 1] # "]"

\* re.match(r'\s*except\s*:', line)
BareExcept(line) ==
    LET a == SpaceRunEnd(line, 1) + 1
        b == a + 6
    IN  /\ b - 1 <= Len(line)
        /\ SubSeq(line, a, b - 1) = <<"e", "x", "c", "e", "p", "t">>
        /\ LET c == SpaceRunEnd(line, b) + 1
           IN  c <= Len(line) /\ line[c] = ":"

\* re.search(r'\bprint\s*\(', line)
PrintCall(line) ==
    \E i \in 1..(Len(line) - 5) :
        /\ i = 1 \/ ~IsWord(line[i - 1])
        /\ SubSeq(line, i, i + 4) = <<"p", "r", "i", "n", "t">>
        /\ LET c == SpaceRunEnd(line, i + 5) + 1
           IN  c <= Len(line) /\ line[c] = "("

_check_style_issues(line, line_num, file_extension) ==
    (IF Len(line) > LongLine
     THEN <<Issue("style", line_num,
                  "Line too long (" \o ToString(Len(line)) \o " characters)",
                  "Break line into multiple lines or refactor", "low")>>
     ELSE <<>>)
    \o
    (IF EndsWith(line, <<" ">>) \/ EndsWith(line, <<"\t">>)
     THEN <<Issue("style", line_num, "Trailing whitespace",
                  "Remove trailing whitespace", "low")>>
     ELSE <<>>)
    \o
    (IF file_extension = <<"p", "y">> /\ CommaNoSpace(line)
     THEN <<Issue("style", line_num, "Missing space after comma",
                  "Add space after comma", "low")>>
     ELSE <<>>)

\* the bug checks without the test for 'is None'
PotentialBugsWithoutIsNoneTest(line, line_num, file_extension) ==
    IF file_extension # <<"p", "y">> THEN <<>>
    ELSE
    (IF /\ Contains(line, <<"=", "=", " ", "N", "o", "n", "e">>) \/ Contains(line, <<"!", "=", " ", "N", "o", "n", "e">>)
     THEN <<Issue("bug", line_num, "Use 'is None' instead of '== None'",
                  "Replace '== None' with 'is None'", "medium")>>
     ELSE <<>>)
    \o
    (IF BareExcept(line)
     THEN <<Issue("bug", line_num, "Bare except clause",
                  "Specify exception type or use 'except Exception:'", "high")>>
     ELSE <<>>)

_check_potential_bugs(line, line_num, file_extension) ==
    IF file_extension # <<"p", "y">> THEN <<>>
    ELSE
    (IF /\ ~Contains(line, <<"i", "s", " ", "N", "o", "n", "e">>)
        /\ Contains(line, <<"=", "=", " ", "N", "o", "n", "e">>) \/ Contains(line, <<"!", "=", " ", "N", "o", "n", "e">>)
     THEN <<Issue("bug", line_num, "Use 'is None' instead of '== None'",
                  "Replace '== None' with 'is None'", "medium")>>
     ELSE <<>>)
    \o
    (IF BareExcept(line)
     THEN <<Issue("bug", line_num, "Bare except clause",
                  "Specify exception type or use 'except Exception:'", "high")>>
     ELSE <<>>)

\* the concatenation rule reporting severity critical
PerformanceIssuesCritical(line, line_num, file_extension) ==
    IF /\ file_extension = <<"p", "y">>
       /\ Contains(line, <<"+", "=">>)
       /\ Contains(Lower(line), <<"s", "t", "r">>)
    THEN <<Issue("performance", line_num,
                 "Potential inefficient string concatenation",
                 "Consider using join() or f-strings for better performance",
                 "critical")>>
    ELSE <<>>

_check_performance_issues(line, line_num, file_extension) ==
    IF /\ file_extension = <<"p", "y">>
       /\ Contains(line, <<"+", "=">>)
       /\ Contains(Lower(line), <<"s", "t", "r">>)
    THEN <<Issue("performance", line_num,
                 "Potential inefficient string concatenation",
                 "Consider using join() or f-strings for better performance",
                 "medium")>>
    ELSE <<>>

_check_best_practices(line, line_num, file_extension) ==
    IF file_extension # <<"p", "y">> THEN <<>>
    ELSE
    (IF Contains(Upper(line), <<"T", "O", "D", "O">>)
     THEN <<Issue("best_practice", line_num, "TODO comment found",
                  "Consider creating a ticket or implementing the TODO", "low")>>
     ELSE <<>>)
    \o
    (IF PrintCall(line)
     THEN <<Issue("best_practice", line_num, "Print statement found",
                  "Consider using logging instead of print statements", "low")>>
     ELSE <<>>)

\* the four rule families on one line, in the order of the loop body
CheckLine(line, line_num, file_extension) ==
    _check_style_issues(line, line_num, file_extension)
    \o _check_potential_bugs(line, line_num, file_extension)
    \o _check_performance_issues(line, line_num, file_extension)
    \o _check_best_practices(line, line_num, file_extension)

\* lines[line_num - 1] of a Python list: a negative index counts from the end
PyIndexOk(lines, idx) == -Len(lines) <= idx /\ idx < Len(lines)
PyIndex(lines, idx) == IF idx >= 0 THEN lines[idx + 1] ELSE lines[Len(lines) + idx + 1]

\* the position in lines that lines[idx] reads, counted from 1
PyPosition(lines, idx) == IF idx >= 0 THEN idx + 1 ELSE Len(lines) + idx + 1

\* the loop over lines_to_analyze, from its k-th element on; ok is FALSE when
\* lines[line_num - 1] raises IndexError; examined lists the positions of the
\* lines that line 81 has read
RECURSIVE AnalyzeLoop(_, _, _, _, _, _)
AnalyzeLoop(lines, lines_to_analyze, k, file_extension, issues, examined) ==
    IF k > Len(lines_to_analyze)
    THEN [ok |-> TRUE, issues |-> issues, examined |-> examined]
    ELSE LET line_num == lines_to_analyze[k] IN
         IF line_num <= Len(lines)
         THEN IF PyIndexOk(lines, line_num - 1)
              THEN AnalyzeLoop(lines, lines_to_analyze, k + 1, file_extension,
                       issues \o CheckLine(PyIndex(lines, line_num - 1),
                                           line_num, file_extension),
                       Append(examined, PyPosition(lines, line_num - 1)))
              ELSE [ok |-> FALSE, issues |-> issues, examined |-> examined]
         ELSE AnalyzeLoop(lines, lines_to_analyze, k + 1, file_extension,
                          issues, examined)

\* lines_to_analyze = changed_lines if changed_lines else range(1, len(lines) + 1)
LinesToAnalyze(lines, changed_lines) ==
    IF changed_lines # <<>> THEN changed_lines ELSE Range(1, Len(lines))

\* CodeAnalysisTool._run
CodeAnalysisTool_run(file_content, file_name, changed_lines) ==
    LET lines == Split(file_content, "\n")
        file_extension == Lower(Last(Split(file_name, ".")))
    IN  AnalyzeLoop(lines, LinesToAnalyze(lines, changed_lines), 1,
                    file_extension, <<>>, <<>>)

(***************************************************************************)
(* PRDataFetcher: what the GitHub API answers for one pull request.  A     *)
(* call of GitHubService either returns or raises (response.raise_for_     *)
(* status(), or the timeout of httpx.AsyncClient()); err is str(e) of the  *)
(* exception a failing mandatory call raises.                              *)
(***************************************************************************)
File(filename, status) == [filename |-> filename, status |-> status]

A_PY == <<"a", ".", "p", "y">>
B_PY == <<"b", ".", "p", "y">>
OLD_PY == <<"o", "l", "d", ".", "p", "y">>
IMAGE_PNG == <<"i", "m", "a", "g", "e", ".", "p", "n", "g">>
EMPTY_PY == <<"e", "m", "p", "t", "y", ".", "p", "y">>
C_PY == <<"c", ".", "p", "y">>
LIB_A_PY == <<"l", "i", "b", "/", "a", ".", "p", "y">>

\* the content of each file at the head revision
FileContent(filename) ==
    CASE filename = A_PY -> <<"i", "f", " ", "x", " ", "=", "=", " ", "N", "o", "n", "e", ":", "\n", " ", " ", " ", " ", "r", "e", "t", "u", "r", "n", " ", "x", " ">>
      [] filename = B_PY -> <<"x", " ", "=", " ", "1">>
      [] filename = IMAGE_PNG -> <<"P", "N", "G", " ">>
      [] filename = EMPTY_PY -> <<>>
      [] filename = C_PY -> <<"p", "r", "i", "n", "t", "(", "a", ",", "b", ")", " ", "\n", "p", "r", "i", "n", "t", "(", "a", ")", " ">>
      [] OTHER -> <<"r", "e", "m", "o", "v", "e", "d", " ">>

FileLists ==
    { <<>>,
      <<File(A_PY, "modified"), File(IMAGE_PNG, "added")>>,
      <<File(OLD_PY, "removed"), File(B_PY, "added")>>,
      <<File(EMPTY_PY, "added"), File(A_PY, "renamed")>>,
      <<File(A_PY, "modified"), File(C_PY, "added")>> }

DiffTexts ==
    { <<>>,
      <<"d", "i", "f", "f", " ", "-", "-", "g", "i", "t", " ", "a", "/", "a", ".", "p", "y", " ", "b", "/", "a", ".", "p", "y", "\n", "@", "@", " ", "-", "1", ",", "2", " ", "+", "1", ",", "2", " ", "@", "@", "\n", "-", "i", "f", " ", "x", ":", "\n", "+", "i", "f", " ", "x", " ", "=", "=", " ", "N", "o", "n", "e", ":", "\n", " ", " ", " ", " ", " ", "r", "e", "t", "u", "r", "n", " ", "x", " ">>,
      <<"d", "i", "f", "f", " ", "-", "-", "g", "i", "t", " ", "a", "/", "b", ".", "p", "y", " ", "b", "/", "b", ".", "p", "y", "\n", "@", "@", " ", "-", "0", ",", "0", " ", "+", "1", " ", "@", "@", "\n", "+", "x", " ", "=", " ", "1", "\n", "d", "i", "f", "f", " ", "-", "-", "g", "i", "t", " ", "a", "/", "i", "m", "a", "g", "e", ".", "p", "n", "g", " ", "b", "/", "i", "m", "a", "g", "e", ".", "p", "n", "g", "\n", "B", "i", "n", "a", "r", "y", " ", "f", "i", "l", "e", "s", " ", "d", "i", "f", "f", "e", "r">>,
      <<"d", "i", "f", "f", " ", "-", "-", "g", "i", "t", " ", "a", "/", "l", "i", "b", "/", "a", ".", "p", "y", " ", "b", "/", "l", "i", "b", "/", "a", ".", "p", "y", "\n", "@", "@", " ", "-", "1", " ", "+", "1", " ", "@", "@", "\n", "-", "x", "=", "1", "\n", "+", "x", " ", "=", " ", "1">> }

\* str(e) of the exceptions a GitHubService call raises: httpx.ReadTimeout
\* has an empty message, httpx.HTTPStatusError names the status
ErrorTexts == {"", "Client error '404 Not Found'"}

\* which call fails, if any: a mandatory call, or the content of some files
Scenarios ==
    { [fails |-> f, err |-> e, pr_files |-> fl, pr_diff |-> d, content_fails |-> cf] :
        f \in {"none", "get_pr_info", "get_pr_files", "get_pr_diff"},
        e \in ErrorTexts, fl \in FileLists, d \in DiffTexts,
        cf \in SUBSET {A_PY, B_PY} }

HeadSha == "sha"

(***************************************************************************)
(* ReviewPipeline: CodeReviewAgent.analyze_pr over GitHubPRTool.           *)
(* _fetch_pr_data, one step per call of the fetcher and per loop           *)
(* iteration.  log is the sequence of fetcher calls and analyses so far.   *)
(***************************************************************************)
Call(op, path) == [op |-> op, path |-> path]

InitPipeline(scn) ==
    [pc |-> "get_pr_info", scn |-> scn,
     pr_info |-> NoneVal, pr_files |-> NoneVal, pr_diff |-> NoneVal,
     changed_lines |-> NoneVal, files_content |-> EmptyDict,
     kc |-> 0, ka |-> 0, file_analyses |-> <<>>,
     results |-> NoneVal, exc |-> NoneVal, log |-> <<>>]

\* an exception leaves _fetch_pr_data and analyze_pr (both log and re-raise)
Raise(p, op) ==
    [p EXCEPT !.pc = "raised", !.exc = Some(p.scn.err),
              !.log = Append(p.log, Call(op, <<>>))]

\* pr_info = await self.github_service.get_pr_info(repo_url, pr_number)
GetPrInfo(p) ==
    IF p.scn.fails = "get_pr_info" THEN Raise(p, "get_pr_info")
    ELSE [p EXCEPT !.pc = "get_pr_files", !.pr_info = Some(HeadSha),
                   !.log = Append(p.log, Call("get_pr_info", <<>>))]

\* pr_files = await self.github_service.get_pr_files(repo_url, pr_number)
GetPrFiles(p) ==
    IF p.scn.fails = "get_pr_files" THEN Raise(p, "get_pr_files")
    ELSE [p EXCEPT !.pc = "get_pr_diff", !.pr_files = Some(p.scn.pr_files),
                   !.log = Append(p.log, Call("get_pr_files", <<>>))]

\* pr_diff = await self.github_service.get_pr_diff(repo_url, pr_number)
GetPrDiff(p) ==
    IF p.scn.fails = "get_pr_diff" THEN Raise(p, "get_pr_diff")
    ELSE [p EXCEPT !.pc = "parse_diff", !.pr_diff = Some(p.scn.pr_diff),
                   !.log = Append(p.log, Call("get_pr_diff", <<>>))]

\* the loop over pr_files is entered, or left when no file remains
ContentLoop(p, k) ==
    IF k <= Len(p.pr_files[1]) THEN [p EXCEPT !.pc = "get_file_content", !.kc = k]
    ELSE [p EXCEPT !.pc = "analyze_file", !.kc = k, !.ka = 1]

\* changed_lines = self.github_service.parse_diff_for_changed_lines(pr_diff)
ParseDiff(p) ==
    ContentLoop([p EXCEPT !.changed_lines =
                     Some(parse_diff_for_changed_lines(p.pr_diff[1]))], 1)

\* the content of every file is asked for
WantsContentOfEveryFile(file_info) == TRUE

\* whether _fetch_pr_data asks for the content of file_info
WantsContent(file_info) == file_info.status # "removed"

\* the iteration without the try of lines 38-46
GetFileContentUnguarded(p) ==
    LET file_info == p.pr_files[1][p.kc] IN
    IF WantsContent(file_info)
    THEN IF file_info.filename \in p.scn.content_fails
         THEN Raise(p, "get_file_content")
         ELSE ContentLoop([p EXCEPT
                              !.log = Append(p.log, Call("get_file_content",
                                                         file_info.filename)),
                              !.files_content =
                                  DictSet(p.files_content, file_info.filename,
                                          FileContent(file_info.filename))],
                          p.kc + 1)
    ELSE ContentLoop(p, p.kc + 1)

\* one iteration of the loop that fills files_content
GetFileContent(p) ==
    LET file_info == p.pr_files[1][p.kc] IN
    IF WantsContent(file_info)
    THEN LET q == [p EXCEPT !.log =
                      Append(p.log, Call("get_file_content", file_info.filename))]
         IN  IF file_info.filename \in p.scn.content_fails
             THEN ContentLoop(q, p.kc + 1)
             ELSE ContentLoop([q EXCEPT !.files_content =
                                  DictSet(q.files_content, file_info.filename,
                                          FileContent(file_info.filename))],
                              p.kc + 1)
    ELSE ContentLoop(p, p.kc + 1)

\* the loop over pr_data['files'] left after one file
AnalyzeLoopBreak(p) == [p EXCEPT !.ka = p.ka + 1, !.pc = "summary"]

\* the loop over pr_data['files'] goes on, or is left when no file remains
AnalyzeLoopNext(p) ==
    IF p.ka + 1 <= Len(p.pr_files[1]) THEN [p EXCEPT !.ka = p.ka + 1]
    ELSE [p EXCEPT !.ka = p.ka + 1, !.pc = "summary"]

\* changed_lines = pr_data['changed_lines'].get(file_name, [])
ChangedLinesOf(changed_lines, file_name) == DictGet(changed_lines, file_name, <<>>)

\* the iteration without the test of line 70: a file without issues is
\* reported too
AnalyzeFileReportsAll(p) ==
    IF p.ka > Len(p.pr_files[1]) THEN [p EXCEPT !.pc = "summary"]
    ELSE
    LET file_info == p.pr_files[1][p.ka]
        file_name == file_info.filename
        file_content == DictGet(p.files_content, file_name, <<>>)
    IN  IF file_info.status = "removed" THEN AnalyzeLoopNext(p)
        ELSE IF should_skip_file(file_name) THEN AnalyzeLoopNext(p)
        ELSE IF file_content = <<>> THEN AnalyzeLoopNext(p)
        ELSE LET analysis_result ==
                     CodeAnalysisTool_run(file_content, file_name,
                         ChangedLinesOf(p.changed_lines[1], file_name))
             IN  AnalyzeLoopNext([p EXCEPT
                     !.log = Append(p.log, Call("analyze", file_name)),
                     !.file_analyses =
                         Append(p.file_analyses,
                                [name |-> file_name,
                                 issues |-> analysis_result.issues])])

\* one iteration of the loop of analyze_pr
AnalyzeFile(p) ==
    IF p.ka > Len(p.pr_files[1]) THEN [p EXCEPT !.pc = "summary"]
    ELSE
    LET file_info == p.pr_files[1][p.ka]
        file_name == file_info.filename
        file_content == DictGet(p.files_content, file_name, <<>>)
    IN  IF file_info.status = "removed" THEN AnalyzeLoopNext(p)
        ELSE IF should_skip_file(file_name) THEN AnalyzeLoopNext(p)
        ELSE IF file_content = <<>> THEN AnalyzeLoopNext(p)
        ELSE LET analysis_result ==
                     CodeAnalysisTool_run(file_content, file_name,
                         ChangedLinesOf(p.changed_lines[1], file_name))
                 q == [p EXCEPT !.log = Append(p.log, Call("analyze", file_name))]
             IN  IF ~analysis_result.ok
                 THEN [q EXCEPT !.pc = "raised",
                                !.exc = Some("list index out of range")]
                 ELSE IF analysis_result.issues # <<>>
                 THEN AnalyzeLoopNext([q EXCEPT !.file_analyses =
                          Append(q.file_analyses,
                                 [name |-> file_name,
                                  issues |-> analysis_result.issues])])
                 ELSE AnalyzeLoopNext(q)

\* sum(1 for fa in file_analyses for issue in fa.issues if issue.severity == sev)
RECURSIVE CountSeverity(_, _)
CountSeverity(file_analyses, sev) ==
    IF file_analyses = <<>> THEN 0
    ELSE Cardinality({i \in DOMAIN Head(file_analyses).issues :
                         Head(file_analyses).issues[i].severity = sev})
         + CountSeverity(Tail(file_analyses), sev)

\* the number of files in place of the number of their issues
TotalIssuesPerFile(file_analyses) == Len(file_analyses)

\* sum(len(fa.issues) for fa in file_analyses)
RECURSIVE TotalIssues(_)
TotalIssues(file_analyses) ==
    IF file_analyses = <<>> THEN 0
    ELSE Len(Head(file_analyses).issues) + TotalIssues(Tail(file_analyses))

\* the summary and the AnalysisResults analyze_pr returns
Summarize(p) ==
    [p EXCEPT !.pc = "returned",
              !.results = Some(
                 [files |-> p.file_analyses,
                  summary |->
                     [total_files |-> Len(p.file_analyses),
                      total_issues |-> TotalIssues(p.file_analyses),
                      critical_issues |-> CountSeverity(p.file_analyses, "critical"),
                      high_issues |-> CountSeverity(p.file_analyses, "high"),
                      medium_issues |-> CountSeverity(p.file_analyses, "medium"),
                      low_issues |-> CountSeverity(p.file_analyses, "low")]])]

PipelineDone(p) == p.pc \in {"returned", "raised"}

\* the next step of a run
PipelineStep(p) ==
    CASE p.pc = "get_pr_info" -> GetPrInfo(p)
      [] p.pc = "get_pr_files" -> GetPrFiles(p)
      [] p.pc = "get_pr_diff" -> GetPrDiff(p)
      [] p.pc = "parse_diff" -> ParseDiff(p)
      [] p.pc = "get_file_content" -> GetFileContent(p)
      [] p.pc = "analyze_file" -> AnalyzeFile(p)
      [] p.pc = "summary" -> Summarize(p)
      [] OTHER -> p

\* asyncio.run(agent.analyze_pr(repo_url, pr_number)): the run to its end
RECURSIVE RunPipeline(_)
RunPipeline(p) == IF PipelineDone(p) THEN p ELSE RunPipeline(PipelineStep(p))

(***************************************************************************)
(* JobOrchestrator: the analysis_tasks table, the Celery result backend,   *)
(* the workers running analyze_pr_task and the query endpoints.            *)
(***************************************************************************)
VARIABLES
    db,       \* analysis_tasks: task_id -> row
    celery,   \* the result backend: task_id -> what AsyncResult(task_id) reads
    wpc,      \* task_id -> where the task analyze_pr_task(task_id) stands
    wl,       \* task_id -> the task's arguments, whether its session can still
              \* commit, how analyze_pr ended and the exception caught
    q,        \* the GET /status request in flight, between its two reads
    resp,     \* the HTTP response being returned, if any
    now,      \* datetime.utcnow(), in days
    pipe      \* one run of analyze_pr, step by step

vars == <<db, celery, wpc, wl, q, resp, now, pipe>>

JobIds == 1..MaxJobs

\* the pull request numbers submitted
PRNumbers == 0..3

\* what GitHub answers for each: a pull request whose b.py cannot be read, one
\* whose diff request times out, one without any finding, and no such pull
\* request
JobPRs ==
    [pr_number \in PRNumbers |->
        CASE pr_number = 1 ->
               [fails |-> "none", err |-> "", content_fails |-> {B_PY}, pr_files |-> <<File(B_PY, "added"), File(A_PY, "modified"), File(IMAGE_PNG, "added")>>, pr_diff |-> <<"d", "i", "f", "f", " ", "-", "-", "g", "i", "t", " ", "a", "/", "a", ".", "p", "y", " ", "b", "/", "a", ".", "p", "y", "\n", "@", "@", " ", "-", "1", ",", "2", " ", "+", "1", ",", "2", " ", "@", "@", "\n", "-", "i", "f", " ", "x", ":", "\n", "+", "i", "f", " ", "x", " ", "=", "=", " ", "N", "o", "n", "e", ":", "\n", " ", " ", " ", " ", " ", "r", "e", "t", "u", "r", "n", " ", "x", " ">>]
          [] pr_number = 2 ->
               [fails |-> "get_pr_diff", err |-> "", content_fails |-> {}, pr_files |-> <<File(A_PY, "modified")>>, pr_diff |-> <<>>]
          [] pr_number = 3 ->
               [fails |-> "none", err |-> "", content_fails |-> {},
                pr_files |-> <<File(B_PY, "added")>>,
                pr_diff |-> <<"d", "i", "f", "f", " ", "-", "-", "g", "i", "t", " ", "a", "/", "b", ".", "p", "y", " ", "b", "/", "b", ".", "p", "y", "\n", "@", "@", " ", "-", "0", ",", "0", " ", "+", "1", " ", "@", "@", "\n", "+", "x", " ", "=", " ", "1">>]
          [] OTHER ->
               [fails |-> "get_pr_info", err |-> "Client error '404 Not Found'", content_fails |-> {}, pr_files |-> <<>>, pr_diff |-> <<>>]]

GitHub(pr_number) == JobPRs[pr_number]

\* timedelta(days=7) of cleanup_old_tasks
RetentionDays == 7

\* str(e) of the exception db.commit() raises when the store rejects a write,
\* and of the one it raises once the session's transaction has failed
CommitErrorText == "(sqlite3.OperationalError) database is locked"
SessionErrorText == "This Session's transaction has been rolled back"

IssueTypes == {"style", "bug", "performance", "best_practice", "security"}

\* results.model_dump_json(): the JSON text of an AnalysisResults
model_dump_json(results) == [json |-> results]

\* AnalysisResults(**json.loads(text)): None when validation raises
ParseResults(text) ==
    IF \A i \in DOMAIN text.json.files :
          \A k \in DOMAIN text.json.files[i].issues :
              text.json.files[i].issues[k].type \in IssueTypes
    THEN Some(text.json)
    ELSE NoneVal

Row(pr_number, status, at) ==
    [pr_number |-> pr_number, status |-> status, created_at |-> at,
     updated_at |-> at, results |-> NoneVal, error_message |-> NoneVal]

Meta(state, kind, text) == [state |-> state, kind |-> kind, text |-> text]

\* the locals of a task that has not run
NoLocals ==
    [pr_number |-> 0, session_ok |-> TRUE, outcome |-> "unset",
     run |-> [pc |-> "unset"], exc |-> NoneVal]

NoResp == [kind |-> "none"]
QIdle == [pc |-> "idle"]
PipeOff == [pc |-> "off"]

Init ==
    /\ db = <<>>
    /\ celery = [j \in JobIds |-> Meta("PENDING", "none", "")]
    /\ wpc = [j \in JobIds |-> "unused"]
    /\ wl = [j \in JobIds |-> NoLocals]
    /\ q = QIdle
    /\ resp = NoResp
    /\ now = 0
    /\ pipe = PipeOff

\* a response is being returned: no other step is modelled until it has left
Quiet == resp = NoResp

\* the endpoints are coroutines that never await, so the server runs one
\* request at a time: no request is in flight
NoRequest == Quiet /\ q.pc = "idle"

\* an id chosen without regard to the ids in use
AnyId(j) == TRUE

\* task_id = str(uuid.uuid4()): an id no job has had
FreshId(j) == wpc[j] = "unused" /\ \A i \in JobIds : i < j => wpc[i] # "unused"

(***************************************************************************)
(* POST /analyze-pr (app/main.py analyze_pr).                              *)
(***************************************************************************)
\* the repo_url of the requests: not a URL, and a repository on GitHub
RepoUrls ==
    { <<"n", "o", "t", "-", "a", "-", "u", "r", "l">>,
      <<"h", "t", "t", "p", "s", ":", "/", "/", "g", "i", "t", "h", "u", "b", ".", "c", "o", "m", "/", "o", "/", "r">> }

\* repo_url: HttpUrl
HttpUrl(repo_url) ==
    \E scheme \in {<<"h", "t", "t", "p", ":", "/", "/">>, <<"h", "t", "t", "p", "s", ":", "/", "/">>} :
        StartsWith(repo_url, scheme) /\ Len(repo_url) > Len(scheme)

\* the bodies of POST /analyze-pr
Requests == [repo_url : RepoUrls, pr_number : PRNumbers]

\* AnalyzePRRequest: repo_url: HttpUrl, pr_number: int
AnalyzePRRequest(request) == HttpUrl(request.repo_url) /\ request.pr_number \in Int

Unprocessable == [kind |-> "error", code |-> 422]

\* the body does not validate: FastAPI answers HTTP 422, analyze_pr is not run
SubmitRejected(request) ==
    /\ NoRequest /\ ~AnalyzePRRequest(request)
    /\ resp' = Unprocessable
    /\ UNCHANGED <<db, celery, wpc, wl, q, now, pipe>>

\* the row is committed, the task is queued, the id is returned
Submit(j, pr_number) ==
    /\ NoRequest /\ FreshId(j)
    /\ db' = DictSet(db, j, Row(pr_number, "pending", now))
    /\ wpc' = [wpc EXCEPT ![j] = "queued"]
    /\ wl' = [wl EXCEPT ![j].pr_number = pr_number]
    /\ resp' = [kind |-> "task", task_id |-> j, status |-> "pending"]
    /\ UNCHANGED <<celery, q, now, pipe>>

\* the row is committed and apply_async raises: HTTP 500
SubmitQueueFails(j, pr_number) ==
    /\ NoRequest /\ FreshId(j)
    /\ db' = DictSet(db, j, Row(pr_number, "pending", now))
    /\ wpc' = [wpc EXCEPT ![j] = "unqueued"]
    /\ resp' = [kind |-> "error", code |-> 500]
    /\ UNCHANGED <<celery, wl, q, now, pipe>>

(***************************************************************************)
(* analyze_pr_task (app/tasks.py).  A db.commit() either succeeds or       *)
(* raises.  One that raises in the flush leaves the session waiting for a  *)
(* rollback the task never does, so every later commit of the task raises  *)
(* as well; one that raises in the COMMIT itself leaves it usable.         *)
(***************************************************************************)
\* an UPDATE without the filter on task_id
UpdateEveryRow(j, fields) ==
    [i \in DOMAIN db |-> [f \in DOMAIN db[i] |->
        IF f \in DOMAIN fields THEN fields[f]
        ELSE IF f = "updated_at" THEN now ELSE db[i][f]]]

\* the UPDATE a commit of the task flushes
UpdateRow(j, fields) ==
    IF j \in DOMAIN db
    THEN [db EXCEPT ![j] = [f \in DOMAIN db[j] |->
             IF f \in DOMAIN fields THEN fields[f]
             ELSE IF f = "updated_at" THEN now ELSE db[j][f]]]
    ELSE db

Goto(j, pc) == wpc' = [wpc EXCEPT ![j] = pc]

\* the task catches e
Catch(j, text, session_ok) ==
    /\ wl' = [wl EXCEPT ![j].exc = Some(text), ![j].session_ok = session_ok]
    /\ Goto(j, "except")

\* lines 20-23 without the write of line 22
WorkerStartWithoutProcessing(j) ==
    /\ Quiet /\ wpc[j] = "queued"
    /\ Goto(j, "initializing")
    /\ UNCHANGED <<db, celery, wl, q, resp, now, pipe>>

\* lines 20-23: the row is read and set to processing
WorkerStart(j) ==
    /\ Quiet /\ wpc[j] = "queued"
    /\ db' = UpdateRow(j, [status |-> "processing"])
    /\ Goto(j, "initializing")
    /\ UNCHANGED <<celery, wl, q, resp, now, pipe>>

\* line 23 raises
WorkerStartCommitFails(j) ==
    /\ Quiet /\ wpc[j] = "queued"
    /\ \E session_ok \in BOOLEAN : Catch(j, CommitErrorText, session_ok)
    /\ UNCHANGED <<db, celery, q, resp, now, pipe>>

\* self.update_state(state='PROGRESS', meta={... 'status': label})
Progress(j, label, next) ==
    /\ celery' = [celery EXCEPT ![j] = Meta("PROGRESS", "progress", label)]
    /\ Goto(j, next)
    /\ UNCHANGED <<db, wl, q, resp, now, pipe>>

\* lines 28-31
WorkerInitializing(j) ==
    /\ Quiet /\ wpc[j] = "initializing"
    /\ Progress(j, "Initializing agent...", "fetching")

\* lines 34-40
WorkerFetching(j) ==
    /\ Quiet /\ wpc[j] = "fetching"
    /\ Progress(j, "Fetching PR data...", "analyzing")

\* asyncio.run(agent.analyze_pr(repo_url, pr_number))
JobRun(pr_number) == RunPipeline(InitPipeline(GitHub(pr_number)))

\* what the task keeps of a run: how it ended, its result or exception, and
\* the calls it made
RunOutcome(p) == [pc |-> p.pc, results |-> p.results, exc |-> p.exc, log |-> p.log]

\* the run of analyze_pr the task has made
RunOf(j) == wl[j].run

\* line 44: analyze_pr returns or raises
WorkerAnalyze(j) ==
    /\ Quiet /\ wpc[j] = "analyzing"
    /\ LET run == RunOutcome(JobRun(wl[j].pr_number))
       IN  IF run.pc = "raised"
           THEN /\ wl' = [wl EXCEPT ![j].run = run, ![j].outcome = "raised",
                                    ![j].exc = run.exc]
                /\ Goto(j, "except")
           ELSE /\ wl' = [wl EXCEPT ![j].run = run, ![j].outcome = "returned"]
                /\ Goto(j, "finalizing")
    /\ UNCHANGED <<db, celery, q, resp, now, pipe>>

\* lines 47-50
WorkerFinalizing(j) ==
    /\ Quiet /\ wpc[j] = "finalizing"
    /\ Progress(j, "Finalizing results...", "storing")

\* line 58 without line 57
CompletedFieldsWithoutResults(results) == [status |-> "completed"]

\* the result stored without the status
ResultsWithoutStatus(results) == [results |-> Some(model_dump_json(results))]

\* the columns lines 57-58 set
CompletedFields(results) ==
    [status |-> "completed", results |-> Some(model_dump_json(results))]

\* lines 53-59: the result is serialized and stored with status completed
WorkerStore(j) ==
    /\ Quiet /\ wpc[j] = "storing"
    /\ db' = UpdateRow(j, CompletedFields(RunOf(j).results[1]))
    /\ Goto(j, "returning")
    /\ UNCHANGED <<celery, wl, q, resp, now, pipe>>

\* line 59 raises
WorkerStoreCommitFails(j) ==
    /\ Quiet /\ wpc[j] = "storing"
    /\ \E session_ok \in BOOLEAN : Catch(j, CommitErrorText, session_ok)
    /\ UNCHANGED <<db, celery, q, resp, now, pipe>>

\* lines 63-67: the task returns and Celery stores SUCCESS
WorkerReturn(j) ==
    /\ Quiet /\ wpc[j] = "returning"
    /\ celery' = [celery EXCEPT ![j] = Meta("SUCCESS", "result", "")]
    /\ Goto(j, "done")
    /\ UNCHANGED <<db, wl, q, resp, now, pipe>>

\* the error stored with status completed
ErrorWithCompleted(text) ==
    [status |-> "completed", error_message |-> Some(text)]

\* the columns lines 74-75 set
FailedFields(text) == [status |-> "failed", error_message |-> Some(text)]

\* lines 69-76: the error is stored with status failed
WorkerExcept(j) ==
    /\ Quiet /\ wpc[j] = "except" /\ wl[j].session_ok
    /\ db' = UpdateRow(j, FailedFields(wl[j].exc[1]))
    /\ Goto(j, "failure_state")
    /\ UNCHANGED <<celery, wl, q, resp, now, pipe>>

\* line 76 raises: the new exception leaves the handler
WorkerExceptCommitFails(j) ==
    /\ Quiet /\ wpc[j] = "except"
    /\ wl' = [wl EXCEPT ![j].exc = Some(IF wl[j].session_ok THEN CommitErrorText
                                        ELSE SessionErrorText),
                        ![j].session_ok = FALSE]
    /\ Goto(j, "raising")
    /\ UNCHANGED <<db, celery, q, resp, now, pipe>>

\* lines 79-82: self.update_state(state='FAILURE', meta={'error': str(e)})
WorkerFailureState(j) ==
    /\ Quiet /\ wpc[j] = "failure_state"
    /\ celery' = [celery EXCEPT ![j] = Meta("FAILURE", "meta", wl[j].exc[1])]
    /\ Goto(j, "raising")
    /\ UNCHANGED <<db, wl, q, resp, now, pipe>>

\* line 84: the exception leaves the task and Celery stores FAILURE with it
WorkerRaise(j) ==
    /\ Quiet /\ wpc[j] = "raising"
    /\ celery' = [celery EXCEPT ![j] = Meta("FAILURE", "exception", wl[j].exc[1])]
    /\ Goto(j, "done")
    /\ UNCHANGED <<db, wl, q, resp, now, pipe>>

(***************************************************************************)
(* GET /status/{task_id} (app/main.py get_task_status): the row is read,   *)
(* then the Celery state.                                                  *)
(***************************************************************************)
\* HTTPException(status_code=404), here with the id that was asked for
NotFound(id) == [kind |-> "error", code |-> 404, task_id |-> id]
ServerError == [kind |-> "error", code |-> 500]

\* line 114 finds no row: HTTP 404
StatusQueryNotFound(id) ==
    /\ NoRequest /\ id \notin DOMAIN db
    /\ resp' = NotFound(id)
    /\ UNCHANGED <<db, celery, wpc, wl, q, now, pipe>>

\* line 114 finds the row
StatusQueryRead(id) ==
    /\ NoRequest /\ id \in DOMAIN db
    /\ q' = [pc |-> "celery", task_id |-> id, task_record |-> db[id]]
    /\ UNCHANGED <<db, celery, wpc, wl, resp, now, pipe>>

\* celery_result.state raises: the backend cannot rebuild an exception from
\* the meta dict that update_state(state='FAILURE', ...) stored
StateRaises(meta) == meta.state = "FAILURE" /\ meta.kind = "meta"

\* line 130: str(celery_result.info).  The result backend keeps the class
\* and the args of the exception and rebuilds it as cls(*args); where the
\* constructor wants more than the message (httpx.HTTPStatusError: request
\* and response, sqlalchemy's OperationalError: params and orig) it falls
\* back to Exception(f'{cls}({args})'), whose text is not str(e)
InfoText(text) ==
    CASE text = "Client error '404 Not Found'" ->
            "<class 'httpx.HTTPStatusError'>([\"Client error '404 Not Found'\"])"
      [] text = CommitErrorText ->
            "<class 'sqlalchemy.exc.OperationalError'>(['(sqlite3.OperationalError) database is locked'])"
      [] OTHER -> text

\* lines 124-125: progress = celery_result.info.get('status', ...)
ProgressOf(meta) ==
    IF ~StateRaises(meta) /\ meta.state = "PROGRESS" THEN Some(meta.text)
    ELSE NoneVal

\* the repair without the test of line 128
NeedsRepairWithoutRowTest(task_record, meta) ==
    /\ ~StateRaises(meta)
    /\ meta.state = "FAILURE"

\* lines 126-128: Celery shows the failure and the row read does not
NeedsRepair(task_record, meta) ==
    /\ ~StateRaises(meta)
    /\ meta.state = "FAILURE"
    /\ task_record.status # "failed"

StatusResponse(id, row, progress) ==
    [kind |-> "status", task_id |-> id, status |-> row.status,
     created_at |-> row.created_at, updated_at |-> row.updated_at,
     progress |-> progress]

\* lines 120-142: the Celery state is read, the row repaired if Celery shows
\* a failure the row does not, and the response built; a repair of a row
\* deleted meanwhile updates nothing and ends in HTTP 500
StatusQueryFinish ==
    /\ Quiet /\ q.pc = "celery"
    /\ LET id == q.task_id
           meta == celery[id]
       IN  IF NeedsRepair(q.task_record, meta)
           THEN /\ db' = UpdateRow(id, FailedFields(InfoText(meta.text)))
                /\ resp' = IF id \in DOMAIN db
                           THEN StatusResponse(id, db'[id], ProgressOf(meta))
                           ELSE ServerError
           ELSE /\ db' = db
                /\ resp' = StatusResponse(id, q.task_record, ProgressOf(meta))
    /\ q' = QIdle
    /\ UNCHANGED <<celery, wpc, wl, now, pipe>>

(***************************************************************************)
(* GET /results/{task_id} (app/main.py get_task_results).                  *)
(***************************************************************************)
\* a query that creates the record it does not find
ResultsQueryCreates(id) ==
    /\ NoRequest /\ id \notin DOMAIN db
    /\ db' = DictSet(db, id, Row(0, "pending", now))
    /\ resp' = NotFound(id)
    /\ UNCHANGED <<celery, wpc, wl, q, now, pipe>>

ResultsQueryNotFound(id) ==
    /\ NoRequest /\ id \notin DOMAIN db
    /\ resp' = NotFound(id)
    /\ UNCHANGED <<db, celery, wpc, wl, q, now, pipe>>

ResultsResponse(id, row) ==
    [kind |-> "results", task_id |-> id, status |-> row.status,
     results |-> IF row.results # NoneVal THEN ParseResults(row.results[1])
                 ELSE NoneVal,
     error_message |-> row.error_message,
     created_at |-> row.created_at, updated_at |-> row.updated_at]

ResultsQuery(id) ==
    /\ NoRequest /\ id \in DOMAIN db
    /\ resp' = ResultsResponse(id, db[id])
    /\ UNCHANGED <<db, celery, wpc, wl, q, now, pipe>>

\* the response leaves the server
Deliver ==
    /\ resp # NoResp
    /\ resp' = NoResp
    /\ UNCHANGED <<db, celery, wpc, wl, q, now, pipe>>

(***************************************************************************)
(* cleanup_old_tasks (app/tasks.py) and the passing of time.               *)
(***************************************************************************)
\* the filter without the test of the status
SweptWhateverStatus(row) == row.created_at < now - RetentionDays

\* the filter with created_at <= cutoff_date
SweptAtCutoff(row) ==
    /\ row.created_at <= now - RetentionDays
    /\ row.status \in {"completed", "failed"}

\* the filter of the query of lines 100-103
Swept(row) ==
    /\ row.created_at < now - RetentionDays
    /\ row.status \in {"completed", "failed"}

Sweep ==
    /\ Quiet
    /\ db' = [j \in {i \in DOMAIN db : ~Swept(db[i])} |-> db[j]]
    /\ UNCHANGED <<celery, wpc, wl, q, resp, now, pipe>>

\* no task is queued or running
NoTaskRunning == \A j \in JobIds : wpc[j] \in {"unused", "unqueued", "done"}

\* RetentionDays or TickDays pass.  They are more than a request, a wait in
\* the queue or a run of the task takes (every call of httpx times out after
\* seconds), so none is under way meanwhile; the time before the first job only
\* shifts every timestamp
Tick ==
    /\ NoRequest /\ NoTaskRunning /\ db # <<>>
    /\ \E days \in {RetentionDays, TickDays} :
          /\ now + days <= MaxNow
          /\ now' = now + days
    /\ UNCHANGED <<db, celery, wpc, wl, q, resp, pipe>>

Next ==
    \/ \E request \in Requests :
          \/ SubmitRejected(request)
          \/ \E j \in JobIds :
                /\ AnalyzePRRequest(request)
                /\ \/ Submit(j, request.pr_number)
                   \/ SubmitQueueFails(j, request.pr_number)
    \/ \E j \in JobIds :
          \/ WorkerStart(j) \/ WorkerStartCommitFails(j)
          \/ WorkerInitializing(j) \/ WorkerFetching(j) \/ WorkerAnalyze(j)
          \/ WorkerFinalizing(j) \/ WorkerStore(j) \/ WorkerStoreCommitFails(j)
          \/ WorkerReturn(j) \/ WorkerExcept(j) \/ WorkerExceptCommitFails(j)
          \/ WorkerFailureState(j) \/ WorkerRaise(j)
    \/ \E id \in JobIds :
          \/ StatusQueryNotFound(id) \/ StatusQueryRead(id)
          \/ ResultsQueryNotFound(id) \/ ResultsQuery(id)
    \/ StatusQueryFinish
    \/ Deliver
    \/ Sweep
    \/ Tick

Spec == Init /\ [][Next]_vars

(***************************************************************************)
(* One run of analyze_pr, step by step, for every answer of the fetcher.   *)
(***************************************************************************)
InitPipelineRun ==
    /\ db = <<>>
    /\ celery = [j \in JobIds |-> Meta("PENDING", "none", "")]
    /\ wpc = [j \in JobIds |-> "unused"]
    /\ wl = [j \in JobIds |-> NoLocals]
    /\ q = QIdle
    /\ resp = NoResp
    /\ now = 0
    /\ \E scn \in Scenarios : pipe = InitPipeline(scn)

PipeStep(pc, next) ==
    /\ pipe.pc = pc
    /\ pipe' = next
    /\ UNCHANGED <<db, celery, wpc, wl, q, resp, now>>

PipeGetPrInfo == PipeStep("get_pr_info", GetPrInfo(pipe))
PipeGetPrFiles == PipeStep("get_pr_files", GetPrFiles(pipe))
PipeGetPrDiff == PipeStep("get_pr_diff", GetPrDiff(pipe))
PipeParseDiff == PipeStep("parse_diff", ParseDiff(pipe))
PipeGetFileContent == PipeStep("get_file_content", GetFileContent(pipe))
PipeAnalyzeFile == PipeStep("analyze_file", AnalyzeFile(pipe))
PipeSummarize == PipeStep("summary", Summarize(pipe))

NextPipeline ==
    \/ PipeGetPrInfo \/ PipeGetPrFiles \/ PipeGetPrDiff \/ PipeParseDiff
    \/ PipeGetFileContent \/ PipeAnalyzeFile \/ PipeSummarize

SpecPipeline == InitPipelineRun /\ [][NextPipeline]_vars

(***************************************************************************)
(* parse_diff_for_changed_lines applied to the texts get_pr_diff can       *)
(* answer: a diff is written line by line from file headers, hunk headers, *)
(* content lines and headers cut short.                                    *)
(***************************************************************************)
\* the longest diff, in lines
MaxDiffItems == 3

TEST_PY == <<"t", "e", "s", "t", ".", "p", "y">>

\* str(n) for n >= 0
RECURSIVE NumChars(_)
NumChars(n) ==
    IF n < 10 THEN <<Digits[n + 1]>>
    ELSE NumChars(n \div 10) \o <<Digits[(n % 10) + 1]>>

\* the lines of a unified diff
FileHeader(path) == [kind |-> "file", path |-> path]
HunkHeader(old_start, old_count, new_start, new_count) ==
    [kind |-> "hunk", old_start |-> old_start, old_count |-> old_count,
     new_start |-> new_start, new_count |-> new_count]
ContentLine(text) == [kind |-> "content", text |-> text]
CutLine(text) == [kind |-> "cut", text |-> text]

\* a range of a hunk header: start,count or start alone
HunkRange(start, count) ==
    NumChars(start) \o (IF count = NoneVal THEN <<>>
                        ELSE <<",">> \o NumChars(count[1]))

\* the text of one line of the diff
RenderItem(item) ==
    CASE item.kind = "file" ->
             <<"d", "i", "f", "f", " ", "-", "-", "g", "i", "t", " ", "a", "/">> \o item.path \o <<" ", "b", "/">> \o item.path
      [] item.kind = "hunk" ->
             <<"@", "@", " ", "-">> \o HunkRange(item.old_start, item.old_count)
                 \o <<" ", "+">> \o HunkRange(item.new_start, item.new_count)
                 \o <<" ", "@", "@">>
      [] OTHER -> item.text

\* '\n'.join of the lines
RECURSIVE Render(_)
Render(items) ==
    IF items = <<>> THEN <<>>
    ELSE IF Len(items) = 1 THEN RenderItem(items[1])
    ELSE RenderItem(items[1]) \o <<"\n">> \o Render(Tail(items))

DiffItems ==
    { FileHeader(A_PY), FileHeader(LIB_A_PY),
      HunkHeader(1, Some(2), 1, Some(2)), HunkHeader(3, NoneVal, 3, NoneVal),
      HunkHeader(5, Some(1), 5, Some(0)), HunkHeader(9, Some(1), 12, Some(1)),
      ContentLine(<<" ", "x">>), ContentLine(<<"+", "x">>), ContentLine(<<"-", "x">>),
      CutLine(<<"d", "i", "f", "f", " ", "-", "-", "g", "i", "t">>), CutLine(<<"@", "@", " ", "-", "1", ",", "2">>) }

\* the diff of the test of the parser, without its second hunk
ScenarioA ==
    << FileHeader(TEST_PY), HunkHeader(1, Some(3), 1, Some(4)),
       ContentLine(<<" ", "d", "e", "f", " ", "h", "e", "l", "l", "o", "(", ")", ":">>),
       ContentLine(<<"+", " ", " ", " ", " ", "p", "r", "i", "n", "t", "(", "\"", "H", "e", "l", "l", "o", "\"", ")">>),
       ContentLine(<<" ", " ", " ", " ", " ", "r", "e", "t", "u", "r", "n", " ", "\"", "w", "o", "r", "l", "d", "\"">>) >>

ParseInputs ==
    UNION { [1..n -> DiffItems] : n \in 0..MaxDiffItems } \cup {ScenarioA}

InitParse ==
    /\ db = <<>>
    /\ celery = [j \in JobIds |-> Meta("PENDING", "none", "")]
    /\ wpc = [j \in JobIds |-> "unused"]
    /\ wl = [j \in JobIds |-> NoLocals]
    /\ q = QIdle
    /\ resp = NoResp
    /\ now = 0
    /\ \E items \in ParseInputs :
          pipe = [pc |-> "parse", items |-> items,
                  diff_content |-> Render(items), changed_lines |-> EmptyDict]

\* changed_lines = self.github_service.parse_diff_for_changed_lines(pr_diff)
PipeParse ==
    /\ pipe.pc = "parse"
    /\ pipe' = [pipe EXCEPT !.pc = "parsed",
                   !.changed_lines = parse_diff_for_changed_lines(pipe.diff_content)]
    /\ UNCHANGED <<db, celery, wpc, wl, q, resp, now>>

NextParse == PipeParse

SpecParse == InitParse /\ [][NextParse]_vars

(***************************************************************************)
(* CodeAnalysisTool._run applied to a file content, a file name and a list *)
(* of changed lines.                                                       *)
(***************************************************************************)
\* the longest content, in lines
MaxContentLines == 2

\* a line longer than the limit of the long-line rule
LongTextLine == [i \in 1..(LongLine + 1) |-> "a"]

ContentLines ==
    { <<"i", "f", " ", "x", " ", "=", "=", " ", "N", "o", "n", "e", ":">>, <<" ", " ", " ", " ", "r", "e", "t", "u", "r", "n", " ", "x">>, <<"x", " ", "!", "=", " ", "N", "o", "n", "e", " ">>,
      <<"x", " ", "i", "s", " ", "N", "o", "n", "e", " ", "o", "r", " ", "y", " ", "=", "=", " ", "N", "o", "n", "e">>, <<"e", "x", "c", "e", "p", "t", " ", ":">>, <<"s", " ", "+", "=", " ", "s", "t", "r", "(", "x", ")">>,
      <<"#", " ", "t", "o", "d", "o", ":", " ", "p", "r", "i", "n", "t", " ", "(", "a", ",", "b", ")">>, LongTextLine, <<>> }

\* '\n'.join(lines)
RECURSIVE JoinLines(_)
JoinLines(lines) ==
    IF Len(lines) = 1 THEN lines[1]
    ELSE lines[1] \o <<"\n">> \o JoinLines(Tail(lines))

FileContents ==
    { JoinLines(lines) :
        lines \in UNION { [1..n -> ContentLines] : n \in 1..MaxContentLines } }

FileNames == { A_PY, <<"a", ".", "P", "Y">>, <<"a", ".", "j", "s">>, <<"p", "y">> }

\* the changed_lines argument: empty (or None), line numbers of the content,
\* and numbers outside of it
ChangedLineLists ==
    { <<>>, <<1>>, <<1, 2>>, <<2, 1>>, <<2, 2>>, <<3>>, <<0>>, <<-1>>, <<-5>> }

InitAnalyze ==
    /\ db = <<>>
    /\ celery = [j \in JobIds |-> Meta("PENDING", "none", "")]
    /\ wpc = [j \in JobIds |-> "unused"]
    /\ wl = [j \in JobIds |-> NoLocals]
    /\ q = QIdle
    /\ resp = NoResp
    /\ now = 0
    /\ \E file_content \in FileContents, file_name \in FileNames,
          changed_lines \in ChangedLineLists :
          pipe = [pc |-> "analyze", file_content |-> file_content,
                  file_name |-> file_name, changed_lines |-> changed_lines,
                  result |-> NoneVal, previous |-> NoneVal]

\* analysis_result = self.analysis_tool._run(file_content, file_name, changed_lines)
PipeAnalyze ==
    /\ pipe.pc = "analyze"
    /\ pipe' = [pipe EXCEPT !.pc = "analyzed",
                   !.result = Some(CodeAnalysisTool_run(pipe.file_content,
                                       pipe.file_name, pipe.changed_lines))]
    /\ UNCHANGED <<db, celery, wpc, wl, q, resp, now>>

\* a tool that keeps its issues list between two calls
PipeAnalyzeAgainKeepingIssues ==
    /\ pipe.pc = "analyzed"
    /\ LET again == CodeAnalysisTool_run(pipe.file_content, pipe.file_name,
                                         pipe.changed_lines)
       IN pipe' = [pipe EXCEPT !.pc = "analyzed_again",
                      !.previous = pipe.result,
                      !.result = Some([again EXCEPT
                          !.issues = pipe.result[1].issues \o again.issues])]
    /\ UNCHANGED <<db, celery, wpc, wl, q, resp, now>>

\* the same tool object is called once more with the arguments of the first
\* call: _run starts from issues = [] and reads nothing but its parameters
PipeAnalyzeAgain ==
    /\ pipe.pc = "analyzed"
    /\ pipe' = [pipe EXCEPT !.pc = "analyzed_again",
                   !.previous = pipe.result,
                   !.result = Some(CodeAnalysisTool_run(pipe.file_content,
                                       pipe.file_name, pipe.changed_lines))]
    /\ UNCHANGED <<db, celery, wpc, wl, q, resp, now>>

NextAnalyze == PipeAnalyze \/ PipeAnalyzeAgain

SpecAnalyze == InitAnalyze /\ [][NextAnalyze]_vars

(***************************************************************************)
(* CodeReviewAgent._should_skip_file applied to the paths of a repository. *)
(***************************************************************************)
Directories ==
    { <<>>, <<"s", "r", "c", "/">>, <<"n", "o", "d", "e", "_", "m", "o", "d", "u", "l", "e", "s", "/">>, <<"v", "e", "n", "v", "/", "l", "i", "b", "/">>, <<"m", "y", "v", "e", "n", "v", "/">>,
      <<"r", "e", "b", "u", "i", "l", "d", "/">>, <<".", "g", "i", "t", "/">>, <<"s", "r", "c", "/", "b", "u", "i", "l", "d", "/">>, <<"D", "i", "s", "t", "/">>, <<"a", "/", "t", "a", "r", "g", "e", "t", "/">> }

BaseNames ==
    { <<"m", "a", "i", "n", ".", "p", "y">>, <<"u", "t", "i", "l", "s", ".", "j", "s">>, <<"i", "m", "a", "g", "e", ".", "p", "n", "g">>, <<"I", "M", "A", "G", "E", ".", "P", "N", "G">>,
      <<"d", "o", "c", "u", "m", "e", "n", "t", ".", "p", "d", "f">>, <<"p", "a", "c", "k", "a", "g", "e", ".", "j", "s", "o", "n">>, <<"p", "y", "t", "h", "o", "n", ".", "p", "y">>, <<"y", "a", "r", "n", ".", "l", "o", "c", "k">>,
      <<"b", "u", "i", "l", "d">>, <<"p", "n", "g">> }

Paths == { dir \o name : dir \in Directories, name \in BaseNames }

InitFilter ==
    /\ db = <<>>
    /\ celery = [j \in JobIds |-> Meta("PENDING", "none", "")]
    /\ wpc = [j \in JobIds |-> "unused"]
    /\ wl = [j \in JobIds |-> NoLocals]
    /\ q = QIdle
    /\ resp = NoResp
    /\ now = 0
    /\ \E file_name \in Paths :
          pipe = [pc |-> "filter", file_name |-> file_name, skip |-> NoneVal]

\* if self._should_skip_file(file_name)
PipeFilter ==
    /\ pipe.pc = "filter"
    /\ pipe' = [pipe EXCEPT !.pc = "filtered",
                   !.skip = Some(should_skip_file(pipe.file_name))]
    /\ UNCHANGED <<db, celery, wpc, wl, q, resp, now>>

NextFilter == PipeFilter

SpecFilter == InitFilter /\ [][NextFilter]_vars

(***************************************************************************)
(* C1.  The stored status of a job changes only by the steps pending ->    *)
(* processing, processing -> completed and processing -> failed, so a      *)
(* completed or failed job keeps its status.                               *)
(***************************************************************************)
C1_StatusChangesOnlyByLifecycleSteps ==
    [][\A j \in JobIds :
          (j \in DOMAIN db /\ j \in DOMAIN db' /\ db'[j].status # db[j].status)
              => <<db[j].status, db'[j].status>> \in
                     { <<"pending", "processing">>,
                       <<"processing", "completed">>,
                       <<"processing", "failed">> }]_vars

C3_CompletedHasResult ==
    /\ \A j \in DOMAIN db :
          db[j].status = "completed" =>
              /\ db[j].results # NoneVal
              /\ ResultsResponse(j, db[j]).results # NoneVal
    /\ (resp.kind = "results" /\ resp.status = "completed")
          => resp.results # NoneVal

\* a result query has answered for a completed job
C3_CompletedResultReturned ==
    /\ resp.kind = "results" /\ resp.status = "completed"
    /\ wpc[resp.task_id] \in {"returning", "done"}

(***************************************************************************)
(* C4.  A failed job has a non-empty error_message and no result, in the   *)
(* store and in the answer of a result query.                              *)
(***************************************************************************)
C4_FailedHasMessageAndNoResult ==
    /\ \A j \in DOMAIN db :
          db[j].status = "failed" =>
              /\ db[j].error_message # NoneVal
              /\ db[j].error_message[1] # ""
              /\ db[j].results = NoneVal
    /\ (resp.kind = "results" /\ resp.status = "failed") =>
          /\ resp.error_message # NoneVal
          /\ resp.error_message[1] # ""
          /\ resp.results = NoneVal

(***************************************************************************)
(* C5.  A job that reached processing is completed or failed once its      *)
(* worker has taken all its steps, also when a fetch timed out or a write  *)
(* of the record failed.                                                   *)
(***************************************************************************)
C5_FinishedWorkerLeavesNoJobProcessing ==
    \A j \in DOMAIN db : wpc[j] = "done" => db[j].status # "processing"

(***************************************************************************)
(* C6.  When the fetch of the metadata, the file list or the diff fails,   *)
(* the run makes no call after the failing one, and the job ends failed    *)
(* with the failure's message as error_message and no result.              *)
(***************************************************************************)
C6_MandatoryFetchFailureFailsJob ==
    \A j \in DOMAIN db :
        (wpc[j] = "done" /\ wl[j].outcome = "raised"
         /\ GitHub(wl[j].pr_number).fails # "none") =>
            /\ RunOf(j).log[Len(RunOf(j).log)].op = GitHub(wl[j].pr_number).fails
            /\ \A i \in DOMAIN RunOf(j).log :
                  RunOf(j).log[i].op \notin {"get_file_content", "analyze"}
            /\ db[j].status = "failed"
            /\ db[j].error_message = Some(GitHub(wl[j].pr_number).err)
            /\ db[j].results = NoneVal

C8_RunOrder ==
    /\ \A i \in DOMAIN pipe.log :
          /\ pipe.log[i].op = "get_pr_info" => i = 1
          /\ pipe.log[i].op = "get_pr_files" =>
                i = 2 /\ pipe.log[1].op = "get_pr_info"
          /\ pipe.log[i].op = "get_pr_diff" =>
                i = 3 /\ pipe.log[2].op = "get_pr_files"
          /\ pipe.log[i].op \in {"get_file_content", "analyze"} =>
                /\ i > 3 /\ pipe.log[3].op = "get_pr_diff"
                /\ pipe.changed_lines =
                      Some(parse_diff_for_changed_lines(pipe.scn.pr_diff))
    /\ pipe.results # NoneVal =>
          /\ pipe.kc > Len(pipe.scn.pr_files) /\ pipe.ka > Len(pipe.scn.pr_files)
          /\ \A k \in DOMAIN pipe.scn.pr_files :
                LET f == pipe.scn.pr_files[k]
                IN  \/ f.status = "removed"
                    \/ should_skip_file(f.filename)
                    \/ DictGet(pipe.files_content, f.filename, <<>>) = <<>>
                    \/ \E i \in DOMAIN pipe.log :
                          pipe.log[i] = Call("analyze", f.filename)

\* a run has returned its Summary after fetching content and analyzing
C8_RunReturnedAfterAnalysis ==
    /\ pipe.pc = "returned" /\ pipe.results # NoneVal
    /\ \E i \in DOMAIN pipe.log : pipe.log[i].op = "get_file_content"
    /\ \E i \in DOMAIN pipe.log : pipe.log[i].op = "analyze"
    /\ Len(pipe.scn.pr_files) > 1

(***************************************************************************)
(* C9.  No content is requested for a path the FileFilter rejects.         *)
(***************************************************************************)
C9_NoContentRequestForRejectedPath ==
    \A i \in DOMAIN pipe.log :
        pipe.log[i].op = "get_file_content" => ~should_skip_file(pipe.log[i].path)

(***************************************************************************)
(* C10.  A changed file without an entry in the ChangedLineSet is skipped: *)
(* none of its lines is analyzed and it gets no FileReport.                *)
(***************************************************************************)
C10_FileWithoutChangedLinesIsSkipped ==
    pipe.changed_lines # NoneVal =>
        /\ \A i \in DOMAIN pipe.log :
              pipe.log[i].op = "analyze" =>
                  pipe.log[i].path \in DOMAIN pipe.changed_lines[1]
        /\ \A k \in DOMAIN pipe.file_analyses :
              pipe.file_analyses[k].name \in DOMAIN pipe.changed_lines[1]

(***************************************************************************)
(* C11.  In every AnalysisResult a run returns, summary.total_files is the *)
(* number of FileReports, summary.total_issues is the sum of the issue     *)
(* counts of the FileReports, and critical_issues + high_issues +          *)
(* medium_issues + low_issues equals total_issues.                         *)
(***************************************************************************)
C11_SummaryCountsAgree ==
    pipe.results # NoneVal =>
        LET files == pipe.results[1].files
            summary == pipe.results[1].summary
        IN  /\ summary.total_files = Cardinality(DOMAIN files)
            /\ summary.total_issues =
                  Cardinality(UNION {{<<i, k>> : k \in DOMAIN files[i].issues} :
                                         i \in DOMAIN files})
            /\ summary.critical_issues + summary.high_issues
                  + summary.medium_issues + summary.low_issues
                  = summary.total_issues

\* a run has returned two FileReports, one of them with several issues
C11_ResultWithSeveralReports ==
    /\ pipe.pc = "returned"
    /\ Len(pipe.results[1].files) = 2
    /\ pipe.results[1].summary.total_issues > 3

C13_SubmitStoresPendingJobAndReturnsId ==
    [][/\ (resp' # resp /\ resp'.kind = "task") =>
             LET j == resp'.task_id
             IN  /\ j \notin DOMAIN db /\ wpc[j] = "unused"
                 /\ DOMAIN db' = DOMAIN db \cup {j}
                 /\ \A i \in DOMAIN db : db'[i] = db[i]
                 /\ db'[j].status = "pending"
                 /\ db'[j].results = NoneVal /\ db'[j].error_message = NoneVal
                 /\ resp'.status = "pending"
                 /\ wpc'[j] = "queued" /\ celery' = celery
       /\ \A j \in JobIds :
             /\ wpc'[j] = "queued" =>
                   j \in DOMAIN db' /\ db'[j].status = "pending"
             /\ (wpc[j] = "queued" /\ wpc'[j] # "queued") => j \in DOMAIN db]_vars

\* a second job has just been submitted and its id is being returned
C13_SecondJobSubmitted ==
    /\ resp.kind = "task" /\ resp.task_id = 2
    /\ wpc[2] = "queued" /\ DOMAIN db = {1, 2}
    /\ db[2].status = "pending"

(***************************************************************************)
(* C14.  A submission with a malformed repository identifier or a PR       *)
(* number that is not positive is rejected: no job record is created for   *)
(* it and nothing is handed to a worker.                                   *)
(***************************************************************************)
C14_NoJobForInvalidSubmission ==
    /\ \A j \in DOMAIN db : db[j].pr_number > 0
    /\ \A j \in JobIds : wpc[j] = "queued" => wl[j].pr_number > 0

(***************************************************************************)
(* C15.  A status or result query for an id that has no job record, never  *)
(* submitted or deleted by the retention sweep, returns NotFound and       *)
(* creates or changes no record; a query for an id that has a record is    *)
(* never answered NotFound.                                                *)
(***************************************************************************)
C15_NotFoundExactlyForMissingRecords ==
    [][\A id \in JobIds :
          /\ (resp' # resp /\ resp' = NotFound(id)) =>
                id \notin DOMAIN db /\ db' = db
          /\ (resp' # resp /\ resp'.kind = "results" /\ resp'.task_id = id) =>
                id \in DOMAIN db
          /\ (q.pc = "idle" /\ q'.pc = "celery" /\ q'.task_id = id) =>
                id \in DOMAIN db
          /\ (resp' # resp /\ resp'.kind = "status" /\ resp'.task_id = id) =>
                q.pc = "celery" /\ q.task_id = id]_vars

\* a query is answered NotFound for a job the retention sweep has deleted
C15_NotFoundAfterSweep ==
    \E id \in JobIds :
        /\ resp = NotFound(id)
        /\ wpc[id] = "done" /\ id \notin DOMAIN db

(***************************************************************************)
(* C16.  The stored result of a job is written at most once: it is unset   *)
(* while the job is pending or processing, it is set only in the step that *)
(* sets the status to completed, and once set it is never changed or       *)
(* removed as long as the job exists.                                      *)
(***************************************************************************)
C16_ResultWrittenOnceWithCompleted ==
    [][/\ \A j \in DOMAIN db' :
             db'[j].status \in {"pending", "processing"} =>
                 db'[j].results = NoneVal
       /\ \A j \in DOMAIN db' \ DOMAIN db : db'[j].results = NoneVal
       /\ \A j \in DOMAIN db \cap DOMAIN db' :
             db'[j].results # db[j].results =>
                 /\ db[j].results = NoneVal
                 /\ db[j].status # "completed"
                 /\ db'[j].status = "completed"]_vars

\* a result stored earlier is still there when a result query reads it
C16_StoredResultReadLater ==
    \E j \in DOMAIN db :
        /\ db[j].status = "completed" /\ db[j].results # NoneVal
        /\ db[j].updated_at < now
        /\ resp.kind = "results" /\ resp.task_id = j

(***************************************************************************)
(* C17.  A completed job has no error_message, in the store and in the     *)
(* answer of a result query: no job that carries an error_message ever     *)
(* becomes completed.                                                      *)
(***************************************************************************)
C17_CompletedHasNoErrorMessage ==
    /\ \A j \in DOMAIN db :
          db[j].status = "completed" => db[j].error_message = NoneVal
    /\ \A j \in DOMAIN db :
          wpc[j] \in {"initializing", "fetching", "analyzing", "finalizing",
                      "storing"} => db[j].error_message = NoneVal
    /\ (resp.kind = "results" /\ resp.status = "completed")
          => resp.error_message = NoneVal

\* a job has just become completed while another job carries an error
C17_CompletedNextToFailedJob ==
    \E j \in DOMAIN db :
        /\ wpc[j] = "returning"
        /\ db[j].status = "completed" /\ db[j].error_message = NoneVal
        /\ \E i \in DOMAIN db : db[i].error_message # NoneVal

(***************************************************************************)
(* C18.  A step of the worker of job J writes only J's record: the status, *)
(* result and error_message of every other job, and its Celery state, are  *)
(* unchanged by it.  The result stored for J is determined by J's own pull *)
(* request and the data fetched for it: two jobs for the same pull request *)
(* store the same result, whatever other jobs ran in between.              *)
(***************************************************************************)
C18_WorkerTouchesOnlyItsJob ==
    [][/\ \A j \in JobIds :
             wpc'[j] # wpc[j] =>
                 \A i \in DOMAIN db \ {j} :
                     /\ i \in DOMAIN db'
                     /\ db'[i] = db[i]
                     /\ celery'[i] = celery[i]
                     /\ wl'[i] = wl[i]
       /\ \A i, j \in DOMAIN db' :
             (/\ db'[i].pr_number = db'[j].pr_number
              /\ db'[i].results # NoneVal
              /\ db'[j].results # NoneVal)
                 => db'[i].results = db'[j].results]_vars

\* a job has just stored its result next to a job with another result
C18_TwoJobsWithDifferentResults ==
    \E j \in DOMAIN db :
        /\ wpc[j] = "returning" /\ db[j].results # NoneVal
        /\ \E i \in DOMAIN db :
              /\ db[i].results # NoneVal
              /\ db[i].results # db[j].results

(***************************************************************************)
(* C19.  A job no worker has taken up stays pending: as long as its task   *)
(* waits in the queue, or was never queued, no query, no step of another   *)
(* job's worker and no retention sweep changes its record or deletes it.   *)
(***************************************************************************)
C19_JobNotTakenUpStaysPending ==
    [][\A j \in JobIds :
          (wpc'[j] \in {"queued", "unqueued"} /\ j \in DOMAIN db) =>
              /\ wpc[j] = wpc'[j]
              /\ j \in DOMAIN db'
              /\ db[j].status = "pending"
              /\ db'[j] = db[j]]_vars

\* a pending job older than the retention period is left by the sweep that
\* deleted another job
C19_OldPendingJobSurvivesSweep ==
    \E j \in DOMAIN db :
        /\ wpc[j] = "unqueued" /\ db[j].status = "pending"
        /\ db[j].created_at < now - RetentionDays
        /\ \E i \in JobIds : wpc[i] = "done" /\ i \notin DOMAIN db

(***************************************************************************)
(* C20.  For every diff D and every path X that a header line              *)
(* "diff --git a/X b/X" of D names, whatever its depth and characters, the *)
(* changed lines parsed from D have an entry keyed exactly X.              *)
(***************************************************************************)
C20_EveryHeaderPathIsAKey ==
    pipe.changed_lines # NoneVal =>
        LET lines == Split(pipe.scn.pr_diff, "\n")
            header(X) == <<"d", "i", "f", "f", " ", "-", "-", "g", "i", "t", " ", "a", "/">> \o X \o <<" ", "b", "/">> \o X
        IN  \A X \in {A_PY, B_PY, IMAGE_PNG, LIB_A_PY} :
                (\E k \in DOMAIN lines : lines[k] = header(X))
                    => X \in DOMAIN pipe.changed_lines[1]

(***************************************************************************)
(* C21.  Every line number the parser records for a file lies in the       *)
(* window [new_start, new_start + new_count) of a hunk header of the diff  *)
(* that follows a file header, new_count being 1 when the header gives no  *)
(* count; so a hunk header with new_count 0 records nothing.               *)
(***************************************************************************)
C21_RecordedLinesLieInHunkWindow ==
    pipe.pc = "parsed" =>
        \A file \in DOMAIN pipe.changed_lines :
            \A i \in DOMAIN pipe.changed_lines[file] :
                \E h \in DOMAIN pipe.items :
                    LET hunk == pipe.items[h]
                        n == pipe.changed_lines[file][i]
                    IN  /\ hunk.kind = "hunk"
                        /\ \E f \in 1..(h - 1) : pipe.items[f].kind = "file"
                        /\ hunk.new_start <= n
                        /\ n < hunk.new_start +
                                 (IF hunk.new_count = NoneVal THEN 1
                                  ELSE hunk.new_count[1])

\* a hunk without a count has recorded its start, one with count 0 nothing
C21_DefaultCountAndZeroCount ==
    /\ pipe.pc = "parsed"
    /\ pipe.items = << FileHeader(A_PY), HunkHeader(3, NoneVal, 3, NoneVal),
                       HunkHeader(5, Some(1), 5, Some(0)) >>
    /\ pipe.changed_lines[A_PY] = <<3>>

(***************************************************************************)
(* C22.  For the diff of Scenario A (file test.py, one hunk with new_start *)
(* 1 and new_count 4, content lines context, added, context) the parser    *)
(* returns exactly {test.py: [2]}: the recorded lines are the added lines, *)
(* counted from new_start over the content, not the declared window.       *)
(***************************************************************************)
C22_ScenarioARecordsTheAddedLine ==
    (/\ pipe.pc = "parsed"
     /\ pipe.diff_content = <<"d", "i", "f", "f", " ", "-", "-", "g", "i", "t", " ", "a", "/", "t", "e", "s", "t", ".", "p", "y", " ", "b", "/", "t", "e", "s", "t", ".", "p", "y", "\n", "@", "@", " ", "-", "1", ",", "3", " ", "+", "1", ",", "4", " ", "@", "@", "\n", " ", "d", "e", "f", " ", "h", "e", "l", "l", "o", "(", ")", ":", "\n", "+", " ", " ", " ", " ", "p", "r", "i", "n", "t", "(", "\"", "H", "e", "l", "l", "o", "\"", ")", "\n", " ", " ", " ", " ", " ", "r", "e", "t", "u", "r", "n", " ", "\"", "w", "o", "r", "l", "d", "\"">>)
        => pipe.changed_lines = (TEST_PY :> <<2>>)

(***************************************************************************)
(* C23.  For every hunk header with new-side start s and count c >= 1 (1   *)
(* when none is given) that follows a file header, the parser records s in *)
(* the list of that file; the hunks of one file all add to the same list,  *)
(* so the start of an earlier hunk is still there after a later one.       *)
(***************************************************************************)
C23_HunkStartsRecordedForTheirFile ==
    pipe.pc = "parsed" =>
        \A h \in DOMAIN pipe.items :
            LET hunk == pipe.items[h]
                headers == {f \in 1..(h - 1) : pipe.items[f].kind = "file"}
            IN  (/\ hunk.kind = "hunk"
                 /\ hunk.new_count = NoneVal \/ hunk.new_count[1] >= 1
                 /\ headers # {})
                    => LET f == CHOOSE f \in headers : \A g \in headers : g <= f
                           path == pipe.items[f].path
                       IN  /\ path \in DOMAIN pipe.changed_lines
                           /\ \E i \in DOMAIN pipe.changed_lines[path] :
                                 pipe.changed_lines[path][i] = hunk.new_start

(***************************************************************************)
(* C24.  On any text, also a malformed or truncated one, the parser        *)
(* returns, and for each file the lines it records are among the added and *)
(* context lines that the text holds for that file: the line with number n *)
(* is the content line of a hunk of the file that is not a removal and is  *)
(* preceded, in its hunk, by n - new_start lines that are not removals.    *)
(***************************************************************************)
C24_RecordedLinesArePresentInTheDiff ==
    pipe.pc = "parsed" =>
        \A file \in DOMAIN pipe.changed_lines :
            \A i \in DOMAIN pipe.changed_lines[file] :
                \E h, t \in DOMAIN pipe.items :
                    LET kept(k) == /\ pipe.items[k].kind = "content"
                                   /\ pipe.items[k].text[1] \in {" ", "+"}
                        headers == {f \in 1..(h - 1) : pipe.items[f].kind = "file"}
                    IN  /\ pipe.items[h].kind = "hunk"
                        /\ headers # {}
                        /\ pipe.items[CHOOSE f \in headers :
                                          \A g \in headers : g <= f].path = file
                        /\ h < t
                        /\ \A k \in (h + 1)..t : pipe.items[k].kind = "content"
                        /\ kept(t)
                        /\ pipe.changed_lines[file][i] =
                              pipe.items[h].new_start
                                 + Cardinality({k \in (h + 1)..(t - 1) : kept(k)})

(***************************************************************************)
(* C25.  When lines_to_check is not empty, the analysis examines a listed  *)
(* number n only if 1 <= n <= total_lines: any other n raises no error,    *)
(* reads no line and adds no issue, so the lines read are the listed       *)
(* numbers in range and every issue's line is in 1..total_lines.           *)
(***************************************************************************)
C25_OnlyListedLinesInRangeAreExamined ==
    (pipe.pc = "analyzed" /\ pipe.changed_lines # <<>>) =>
        LET result == pipe.result[1]
            total_lines == Len(Split(pipe.file_content, "\n"))
            InRange(n) == 1 <= n /\ n <= total_lines
        IN  /\ result.ok
            /\ result.examined = SelectSeq(pipe.changed_lines, InRange)
            /\ \A i \in DOMAIN result.issues :
                  InRange(result.issues[i].line)

(***************************************************************************)
(* C26.  For a .py path the analysis reports the none-equality issue (type *)
(* bug, severity medium) for an examined line exactly when the line holds  *)
(* "== None" or "!= None" and does not hold "is None": the issues of that  *)
(* kind are, in order, those of the examined lines of that form.  For the  *)
(* content "if x == None:" / "    return x", path a.py and lines [1, 2]    *)
(* the whole result is one issue: bug, line 1, medium.                     *)
(***************************************************************************)
C26_NoneEqualityReportedExactly ==
    (/\ pipe.pc = "analyzed"
     /\ EndsWith(Lower(pipe.file_name), <<".", "p", "y">>)
     /\ pipe.result[1].ok) =>
        LET result == pipe.result[1]
            lines == Split(pipe.file_content, "\n")
            NoneEquality(issue) ==
                issue.type = "bug" /\ issue.severity = "medium"
            Compares(p) ==
                /\ Contains(lines[p], <<"=", "=", " ", "N", "o", "n", "e">>) \/ Contains(lines[p], <<"!", "=", " ", "N", "o", "n", "e">>)
                /\ ~Contains(lines[p], <<"i", "s", " ", "N", "o", "n", "e">>)
            reported == SelectSeq(result.issues, NoneEquality)
            expected == SelectSeq(result.examined, Compares)
        IN  /\ Len(reported) = Len(expected)
            /\ (\A i \in DOMAIN pipe.changed_lines :
                    pipe.changed_lines[i] \in DOMAIN lines)
                  => \A i \in DOMAIN reported : reported[i].line = expected[i]
            /\ (/\ pipe.file_content = <<"i", "f", " ", "x", " ", "=", "=", " ", "N", "o", "n", "e", ":", "\n", " ", " ", " ", " ", "r", "e", "t", "u", "r", "n", " ", "x">>
                /\ pipe.file_name = A_PY
                /\ pipe.changed_lines = <<1, 2>>)
                  => /\ Len(result.issues) = 1
                     /\ result.issues[1].type = "bug"
                     /\ result.issues[1].line = 1
                     /\ result.issues[1].severity = "medium"

\* Scenario B has been analyzed
C26_ScenarioBAnalyzed ==
    /\ pipe.pc = "analyzed"
    /\ pipe.file_content = <<"i", "f", " ", "x", " ", "=", "=", " ", "N", "o", "n", "e", ":", "\n", " ", " ", " ", " ", "r", "e", "t", "u", "r", "n", " ", "x">>
    /\ pipe.file_name = A_PY
    /\ pipe.changed_lines = <<1, 2>>
    /\ pipe.result[1].ok
    /\ Len(pipe.result[1].issues) = 1

(***************************************************************************)
(* C27.  For a path whose file extension is not py the analysis produces   *)
(* only long-line and trailing-whitespace issues (type style, severity     *)
(* low), whatever the content; and for every path these two rules are      *)
(* applied to every examined line: each examined line longer than the      *)
(* limit has its long-line issue, each one that ends in a blank or a tab   *)
(* its trailing-whitespace issue.                                          *)
(***************************************************************************)
C27_OtherExtensionsGetOnlyTheTwoStyleRules ==
    (pipe.pc = "analyzed" /\ pipe.result[1].ok) =>
        LET result == pipe.result[1]
            lines == Split(pipe.file_content, "\n")
            TooLong(p) == Len(lines[p]) > LongLine
            Trailing(p) == EndsWith(lines[p], <<" ">>) \/ EndsWith(lines[p], <<"\t">>)
            IsTrailing(issue) == issue.description = "Trailing whitespace"
            IsOther(issue) ==
                /\ issue.description # "Trailing whitespace"
                /\ issue.description # "Missing space after comma"
                /\ issue.type = "style"
        IN  /\ Len(SelectSeq(result.issues, IsTrailing))
                  = Len(SelectSeq(result.examined, Trailing))
            /\ Len(SelectSeq(result.issues, IsOther))
                  = Len(SelectSeq(result.examined, TooLong))
            /\ ~EndsWith(Lower(pipe.file_name), <<".", "p", "y">>) =>
                  /\ \A i \in DOMAIN result.issues :
                        /\ result.issues[i].type = "style"
                        /\ result.issues[i].severity = "low"
                        /\ IsTrailing(result.issues[i]) \/ IsOther(result.issues[i])

(***************************************************************************)
(* C28.  When lines_to_check is empty or absent the analysis examines      *)
(* every line 1..total_lines of the content exactly once, in increasing    *)
(* order; when it is not empty, no line outside the listed numbers is      *)
(* examined or reported.                                                   *)
(***************************************************************************)
C28_AllLinesOrOnlyTheListedLines ==
    (pipe.pc = "analyzed" /\ pipe.result[1].ok) =>
        LET result == pipe.result[1]
            total_lines == Len(Split(pipe.file_content, "\n"))
            listed == {pipe.changed_lines[i] : i \in DOMAIN pipe.changed_lines}
        IN  IF pipe.changed_lines = <<>>
            THEN result.examined = [n \in 1..total_lines |-> n]
            ELSE /\ \A i \in DOMAIN result.examined : result.examined[i] \in listed
                 /\ \A i \in DOMAIN result.issues : result.issues[i].line \in listed

(***************************************************************************)
(* C29.  should_skip(path) is true exactly when the lowercased path ends   *)
(* with a member of the extension set or a directory of the path, one of   *)
(* its segments before the last, is a member of the vendor/build directory *)
(* set; it is true for image.png, document.pdf, node_modules/package.json  *)
(* and venv/lib/python.py and false for main.py and src/utils.js.          *)
(***************************************************************************)
C29_SkipExactlyByExtensionOrDirectorySegment ==
    pipe.pc = "filtered" =>
        LET segments == Split(pipe.file_name, "/")
            directories == {SubSeq(p, 1, Len(p) - 1) : p \in skip_patterns}
        IN  /\ pipe.skip[1] <=>
                  \/ \E ext \in skip_extensions :
                        EndsWith(Lower(pipe.file_name), ext)
                  \/ \E k \in 1..(Len(segments) - 1) : segments[k] \in directories
            /\ pipe.file_name \in { <<"i", "m", "a", "g", "e", ".", "p", "n", "g">>, <<"d", "o", "c", "u", "m", "e", "n", "t", ".", "p", "d", "f">>,
                                    <<"n", "o", "d", "e", "_", "m", "o", "d", "u", "l", "e", "s", "/", "p", "a", "c", "k", "a", "g", "e", ".", "j", "s", "o", "n">>,
                                    <<"v", "e", "n", "v", "/", "l", "i", "b", "/", "p", "y", "t", "h", "o", "n", ".", "p", "y">> } => pipe.skip[1]
            /\ pipe.file_name \in { <<"m", "a", "i", "n", ".", "p", "y">>, <<"s", "r", "c", "/", "u", "t", "i", "l", "s", ".", "j", "s">> } => ~pipe.skip[1]

(***************************************************************************)
(* C30.  No content is fetched and no analysis is run for a changed file   *)
(* whose status is removed, and no FileReport, during the run or in the    *)
(* result, names a removed file or a file the FileFilter rejects.          *)
(***************************************************************************)
C30_RemovedAndRejectedFilesAreLeftOut ==
    LET Removed(path) ==
            \E k \in DOMAIN pipe.scn.pr_files :
                /\ pipe.scn.pr_files[k].filename = path
                /\ pipe.scn.pr_files[k].status = "removed"
        LeftOut(path) == Removed(path) \/ should_skip_file(path)
    IN  /\ \A i \in DOMAIN pipe.log :
              pipe.log[i].op \in {"get_file_content", "analyze"}
                  => ~Removed(pipe.log[i].path)
        /\ \A k \in DOMAIN pipe.file_analyses :
              ~LeftOut(pipe.file_analyses[k].name)
        /\ pipe.results # NoneVal =>
              \A k \in DOMAIN pipe.results[1].files :
                  ~LeftOut(pipe.results[1].files[k].name)

\* a run over a list with a removed file has analyzed another file and returned
C30_RunWithRemovedFileReturned ==
    /\ pipe.pc = "returned" /\ pipe.results # NoneVal
    /\ \E k \in DOMAIN pipe.scn.pr_files : pipe.scn.pr_files[k].status = "removed"
    /\ \E i \in DOMAIN pipe.log : pipe.log[i].op = "analyze"


C32_LabelsFollowProcessingInOrder ==
    [][\A j \in JobIds :
        /\ (celery'[j] # celery[j] /\ celery'[j].state = "PROGRESS") =>
              /\ j \in DOMAIN db /\ db[j].status = "processing"
              /\ db'[j].status = "processing"
              /\ celery'[j].text \in {"Initializing agent...", "Fetching PR data...",
                                      "Finalizing results..."}
              /\ celery'[j].text = "Initializing agent..." =>
                     celery[j].state = "PENDING"
              /\ celery'[j].text = "Fetching PR data..." =>
                     /\ celery[j].state = "PROGRESS"
                     /\ celery[j].text = "Initializing agent..."
              /\ celery'[j].text = "Finalizing results..." =>
                     /\ celery[j].state = "PROGRESS"
                     /\ celery[j].text = "Fetching PR data..."
                     /\ wl[j].outcome = "returned"
        /\ (j \in DOMAIN db /\ j \in DOMAIN db' /\ db[j].status # "completed"
               /\ db'[j].status = "completed") =>
              /\ celery[j].state = "PROGRESS"
              /\ celery[j].text = "Finalizing results..."
        /\ wl'[j].outcome = "raised" =>
              ~(celery'[j].state = "PROGRESS"
                  /\ celery'[j].text = "Finalizing results...")]_vars

\* one job has stored completed after its last label, another one's run of
\* analyze_pr has raised after "Fetching PR data..."
C32_CompletedAfterFinalizingAndRaisedWithout ==
    \E i, j \in DOMAIN db :
        /\ wpc[i] = "returning" /\ db[i].status = "completed"
        /\ celery[i].text = "Finalizing results..."
        /\ wl[j].outcome = "raised" /\ wpc[j] = "done"


(***************************************************************************)
(* C33.  Every issue _run returns has one of the pairs (style, low),       *)
(* (bug, medium), (bug, high), (performance, medium), (best_practice,      *)
(* low) as its type and severity: none has type security or severity       *)
(* critical, so the count of critical issues the summary takes over the    *)
(* reported issues is 0.                                                   *)
(***************************************************************************)
C33_IssuesHaveOneOfFivePairs ==
    (pipe.pc \in {"analyzed", "analyzed_again"} /\ pipe.result[1].ok) =>
        LET issues == pipe.result[1].issues
        IN  /\ \A i \in DOMAIN issues :
                  /\ <<issues[i].type, issues[i].severity>> \in
                        { <<"style", "low">>, <<"bug", "medium">>,
                          <<"bug", "high">>, <<"performance", "medium">>,
                          <<"best_practice", "low">> }
                  /\ issues[i].type # "security"
                  /\ issues[i].severity # "critical"
            /\ CountSeverity(<<[name |-> pipe.file_name, issues |-> issues]>>,
                             "critical") = 0

\* a file whose issues show all three severities, on two of the types
C33_HighMediumAndLowIssues ==
    /\ pipe.pc = "analyzed" /\ pipe.result[1].ok
    /\ LET issues == pipe.result[1].issues
       IN  /\ {issues[i].severity : i \in DOMAIN issues} = {"low", "medium", "high"}
           /\ {issues[i].type : i \in DOMAIN issues} = {"style", "bug"}


(***************************************************************************)
(* C34.  cleanup_old_tasks deletes a job only if its status is completed   *)
(* or failed and its created_at lies more than 7 days before the sweep.    *)
(* A pending or processing job is never deleted, however old it is, and a  *)
(* step that deletes jobs leaves every other job as it was.                *)
(***************************************************************************)
C34_SweepDeletesOnlyOldFinishedJobs ==
    [][\A j \in DOMAIN db :
        /\ j \notin DOMAIN db' =>
              /\ db[j].status \in {"completed", "failed"}
              /\ now - db[j].created_at > 7
              /\ DOMAIN db' \subseteq DOMAIN db
              /\ \A i \in DOMAIN db' : db'[i] = db[i]
        /\ db[j].status \in {"pending", "processing"} => j \in DOMAIN db']_vars

\* after a sweep that deleted a finished job, a job as old as that one is
\* still stored with status pending or processing
C34_OldUnfinishedJobNextToDeletedOne ==
    \E i, j \in JobIds :
        /\ wpc[i] = "done" /\ i \notin DOMAIN db
        /\ j \in DOMAIN db /\ db[j].status \in {"pending", "processing"}
        /\ now - db[j].created_at > 7


(***************************************************************************)
(* C35.  Once the failure of a job's run has set its error_message, no     *)
(* later step changes it: a status query that runs while the worker        *)
(* handles the failure never replaces the stored text by another one.      *)
(***************************************************************************)
C35_ErrorMessageIsNeverReplaced ==
    [][\A j \in DOMAIN db \cap DOMAIN db' :
          db[j].error_message # NoneVal =>
              db'[j].error_message = db[j].error_message]_vars


(***************************************************************************)
(* C36.  A status response carries a progress label only together with     *)
(* status processing: under no interleaving with the worker does one carry *)
(* a label next to status pending, completed or failed.                    *)
(***************************************************************************)
C36_ProgressLabelOnlyWithProcessing ==
    (resp.kind = "status" /\ resp.progress # NoneVal) =>
        resp.status = "processing"


(***************************************************************************)
(* C37.  When analyze_pr answers a submission with an error, no job record *)
(* of that submission remains in the store: every stored job has had its   *)
(* id returned to the submitter and has been handed to the worker queue.   *)
(***************************************************************************)
C37_EveryStoredJobWasQueuedAndReturned ==
    \A j \in DOMAIN db : wpc[j] # "unqueued"

====
